---- MODULE Spec2Model ----
(***************************************************************************)
(* A model of trial.py (class PDFLinkExtractor): reference extraction by   *)
(* regular expressions, the per-reference resolution loop with its        *)
(* fallback chain, and the two report writers.  Strings are TLA+ strings; *)
(* the regular expressions are matched character by character.  Every     *)
(* network call is a nondeterministic choice among the outcomes the call  *)
(* can have (request error, non-200 status, page with or without the      *)
(* element looked for).                                                    *)
(***************************************************************************)
EXTENDS Integers, Sequences, FiniteSets, TLC

VARIABLES pc, pdf, text, links, dois, arxiv_ids, todo,
          bound, title, abstract, metadata, calls, out

vars == <<pc, pdf, text, links, dois, arxiv_ids, todo,
          bound, title, abstract, metadata, calls, out>>

(***************************************************************************)
(* Bounds of the model.                                                    *)
(***************************************************************************)
\* the number of whitespace-separated tokens of a document of the pipeline
MaxTokens == 2
\* the number of pieces a text handed to the pure extraction is built from
MaxPieces == 4

(***************************************************************************)
(* Python string primitives.                                               *)
(***************************************************************************)
At(s, i) == SubSeq(s, i, i)

StartsAt(s, p, i) == i >= 1 /\ i + Len(p) - 1 <= Len(s) /\ SubSeq(s, i, i + Len(p) - 1) = p

StartsWith(s, p) == StartsAt(s, p, 1)

Contains(s, p) == \E i \in 1..Len(s) : StartsAt(s, p, i)

MaxOf(S) == CHOOSE m \in S : \A k \in S : k <= m

\* s.split(sep)[-1]
LastSegment(s, sep) ==
    LET idx == {i \in 1..Len(s) : At(s, i) = sep}
    IN  IF idx = {} THEN s ELSE SubSeq(s, MaxOf(idx) + 1, Len(s))

\* the length of the longest run of characters of Cls that starts at i
RunLen(s, i, Cls) ==
    CHOOSE n \in 0..(Len(s) - i + 1) :
        /\ \A k \in 0..(n - 1) : At(s, i + k) \in Cls
        /\ (i + n > Len(s) \/ At(s, i + n) \notin Cls)

\* the length of the longest run of characters of Cls that ends s
TrailLen(s, Cls) ==
    CHOOSE n \in 0..Len(s) :
        /\ \A k \in 0..(n - 1) : At(s, Len(s) - k) \in Cls
        /\ (n = Len(s) \/ At(s, Len(s) - n) \notin Cls)

\* s.strip(chars): both ends
Strip(s, Cls) ==
    LET a == RunLen(s, 1, Cls)
    IN  IF a = Len(s) THEN "" ELSE SubSeq(s, a + 1, Len(s) - TrailLen(s, Cls))

Whitespace == {" ", "\t", "\n", "\r"}

Digits == {"0", "1", "2", "3", "4", "5", "6", "7", "8", "9"}

LowerCase == "abcdefghijklmnopqrstuvwxyz"

UpperCase == "ABCDEFGHIJKLMNOPQRSTUVWXYZ"

Letters == {At(LowerCase, i) : i \in 1..Len(LowerCase)} \cup {At(UpperCase, i) : i \in 1..Len(UpperCase)}

\* the character class [-._;()/:A-Za-z0-9] of doi_pattern
DoiChars == {"-", ".", "_", ";", "(", ")", "/", ":"} \cup Letters \cup Digits

\* the characters of link.strip(',.()[]')
StripChars == {",", ".", "(", ")", "[", "]"}

\* the length of the longest run of non-whitespace characters that starts at i: [^\s]+
NonSpaceLen(s, i) ==
    CHOOSE n \in 0..(Len(s) - i + 1) :
        /\ \A k \in 0..(n - 1) : At(s, i + k) \notin Whitespace
        /\ (i + n > Len(s) \/ At(s, i + n) \in Whitespace)

(***************************************************************************)
(* The regular expressions of extract_links_and_dois.  MatchLen is the    *)
(* length of the match of the pattern at position i (0: no match); every  *)
(* quantifier is greedy and none of the patterns can match by giving      *)
(* characters back, so the match at a position is unique.                  *)
(***************************************************************************)
\* a literal prefix followed by [^\s]+
PrefixMatchLen(s, i, prefix) ==
    IF StartsAt(s, prefix, i) /\ NonSpaceLen(s, i + Len(prefix)) >= 1
    THEN Len(prefix) + NonSpaceLen(s, i + Len(prefix))
    ELSE 0

\* r'https?://[^\s]+'
HttpMatchLen(s, i) ==
    IF StartsAt(s, "https://", i) THEN PrefixMatchLen(s, i, "https://")
    ELSE PrefixMatchLen(s, i, "http://")

\* r'10\.\d{4,9}/[-._;()/:A-Za-z0-9]+'
DoiMatchLen(s, i) ==
    IF ~StartsAt(s, "10.", i) THEN 0
    ELSE LET d == RunLen(s, i + 3, Digits)
         IN  IF d >= 4 /\ d <= 9 /\ StartsAt(s, "/", i + 3 + d)
                /\ RunLen(s, i + 4 + d, DoiChars) >= 1
             THEN 4 + d + RunLen(s, i + 4 + d, DoiChars)
             ELSE 0

\* r'arXiv:\d{4}\.\d{4,5}'
ArxivMatchLen(s, i) ==
    IF ~StartsAt(s, "arXiv:", i) THEN 0
    ELSE IF RunLen(s, i + 6, Digits) = 4 /\ StartsAt(s, ".", i + 10)
            /\ RunLen(s, i + 11, Digits) >= 4
         THEN 11 + (IF RunLen(s, i + 11, Digits) >= 5 THEN 5 ELSE 4)
         ELSE 0

MatchLen(pattern, s, i) ==
    CASE pattern = "http"   -> HttpMatchLen(s, i)
      [] pattern = "www"    -> PrefixMatchLen(s, i, "www.")
      [] pattern = "doiorg" -> PrefixMatchLen(s, i, "doi.org/")
      [] pattern = "doi"    -> DoiMatchLen(s, i)
      [] pattern = "arxiv"  -> ArxivMatchLen(s, i)

\* re.findall(pattern, s): the non-overlapping matches, leftmost first
RECURSIVE FindFrom(_, _, _)
FindFrom(pattern, s, i) ==
    IF i > Len(s) THEN <<>>
    ELSE LET n == MatchLen(pattern, s, i)
         IN  IF n > 0 THEN <<SubSeq(s, i, i + n - 1)>> \o FindFrom(pattern, s, i + n)
             ELSE FindFrom(pattern, s, i + 1)

FindAll(pattern, s) == FindFrom(pattern, s, 1)

Range(q) == {q[i] : i \in 1..Len(q)}

\* list(set(...)): the elements once each, in an order the hash seed decides
ListsOf(S) == {q \in [1..Cardinality(S) -> S] : Range(q) = S}

\* the links are deduplicated as matched, not stripped
CleanLinkSkipped(link) == link

CleanLink(link) == Strip(link, StripChars)

\* the matches of the three link patterns, in the order links.extend appends them
LinkMatches(t) == FindAll("http", t) \o FindAll("www", t) \o FindAll("doiorg", t)

LinkSet(t) == {CleanLink(l) : l \in Range(LinkMatches(t))}

DoiSet(t) == Range(FindAll("doi", t))

ArxivSet(t) == Range(FindAll("arxiv", t))

(***************************************************************************)
(* extract_abstract_from_text: the in-document heuristic.                  *)
(***************************************************************************)
LowerChar(c) ==
    IF \E i \in 1..Len(UpperCase) : At(UpperCase, i) = c
    THEN At(LowerCase, CHOOSE i \in 1..Len(UpperCase) : At(UpperCase, i) = c)
    ELSE c

\* p (given in lower case) occurs at i of s, letter case ignored: re.IGNORECASE
StartsAtIgnoreCase(s, p, i) ==
    /\ i >= 1 /\ i + Len(p) - 1 <= Len(s)
    /\ \A k \in 1..Len(p) : LowerChar(At(s, i + k - 1)) = At(p, k)

\* re.sub(r'\s+', ' ', s) from position i on
RECURSIVE CollapseFrom(_, _)
CollapseFrom(s, i) ==
    IF i > Len(s) THEN ""
    ELSE IF At(s, i) \in Whitespace
         THEN " " \o CollapseFrom(s, i + RunLen(s, i, Whitespace))
         ELSE At(s, i) \o CollapseFrom(s, i + 1)

\* re.sub(r'\s+', ' ', abstract).strip()
CleanAbstract(s) == Strip(CollapseFrom(s, 1), Whitespace)

\* r'Abstract[:.]?\s*(.+?)(?=\n\n|\n[A-Z]|$)' under IGNORECASE, MULTILINE and
\* DOTALL: group 1 of the leftmost match, as a set of at most one string.  Under
\* MULTILINE the $ of the lookahead holds before every newline, so the lazy group
\* ends before the first newline after its first character, or at the end of the
\* text.  When no character follows the label and its whitespace, the group is the
\* one character the label or the whitespace gives back.
LabelledAbstract(t) ==
    LET starts == {i \in 1..Len(t) : StartsAtIgnoreCase(t, "abstract", i)}
    IN  IF starts = {} THEN {}
        ELSE LET i  == CHOOSE m \in starts : \A k \in starts : m <= k
                 a  == i + 8 + (IF i + 8 <= Len(t) /\ At(t, i + 8) \in {":", "."} THEN 1 ELSE 0)
                 p  == a + RunLen(t, a, Whitespace)
                 nl == {j \in (p + 1)..Len(t) : At(t, j) = "\n"}
             IN  IF p <= Len(t)
                 THEN {SubSeq(t, p, IF nl = {} THEN Len(t)
                                    ELSE (CHOOSE m \in nl : \A k \in nl : m <= k) - 1)}
                 ELSE IF p - 1 >= i + 8 THEN {At(t, Len(t))}
                 ELSE {}

\* position i is not the start of 'Introduction' or 'References'
CleanPosition(t, i) ==
    ~StartsAtIgnoreCase(t, "introduction", i) /\ ~StartsAtIgnoreCase(t, "references", i)

\* the length of the longest run of clean positions that starts at i
CleanRunLen(t, i) ==
    CHOOSE n \in 0..(Len(t) - i + 1) :
        /\ \A k \in 0..(n - 1) : CleanPosition(t, i + k)
        /\ (i + n > Len(t) \/ ~CleanPosition(t, i + n))

\* r'((?:(?!Introduction|References)[\s\S]){50,500})': the leftmost match
TextBlock(t) ==
    LET starts == {i \in 1..Len(t) : CleanRunLen(t, i) >= 50}
    IN  IF starts = {} THEN {}
        ELSE LET i == CHOOSE m \in starts : \A k \in starts : m <= k
                 n == IF CleanRunLen(t, i) > 500 THEN 500 ELSE CleanRunLen(t, i)
             IN  {SubSeq(t, i, i + n - 1)}

ExtractAbstractFromText(t) ==
    LET first  == {CleanAbstract(m) : m \in LabelledAbstract(t)}
        second == {CleanAbstract(m) : m \in TextBlock(t)}
    IN  IF \E a \in first : Len(a) > 50 THEN CHOOSE a \in first : TRUE
        ELSE IF \E a \in second : Len(a) > 50 THEN CHOOSE a \in second : TRUE
        ELSE "No abstract found in text"

(***************************************************************************)
(* The network.  requests.get either raises (connection error, timeout, a *)
(* URL without an http scheme), answers with a status other than 200, or  *)
(* answers 200 with a page.  What a page or an API holds for a URL or a   *)
(* query is named after that URL or query, so the content fetched for one *)
(* reference differs from the content fetched for another.                *)
(***************************************************************************)
HttpOutcomes(url) ==
    IF StartsWith(url, "http://") \/ StartsWith(url, "https://")
    THEN {"error", "status", "ok"}
    ELSE {"error"}

PageTitle(url) == "title of " \o url

PageAbstract(url) == "abstract of " \o url

CrossrefAbstract(query) == "crossref abstract for " \o query

SemanticAbstract(query) == "semantic scholar abstract for " \o query

\* a logged call: the function, its argument, the abstract it handed to
\* process_links_and_dois (<<>> for a call made to find a title), and who made it:
\* process_links_and_dois itself ("chain"), extract_title_from_url ("title") or
\* create_output_html ("html")
Call(fn, arg, ret, via) == [fn |-> fn, arg |-> arg, ret |-> ret, via |-> via]

\* extract_abstract_from_arxiv(url): the <<title, abstract>> pairs it can return
ArxivResults(url) ==
    UNION {IF h = "ok"
           THEN {<<t, a>> : t \in {PageTitle(url), "Title not available"},
                            a \in {PageAbstract(url), "", "Abstract not available"}}
           ELSE {<<"Title retrieval error", "Abstract retrieval error">>}
           : h \in HttpOutcomes(url)}

\* extract_abstract_from_url(url): the strings it can return
UrlAbstractResults(url) ==
    UNION {CASE h = "error"  -> {"Abstract extraction failed"}
             [] h = "status" -> {"Abstract not available"}
             [] h = "ok"     -> {PageAbstract(url), "", "Abstract not found"}
           : h \in HttpOutcomes(url)}

\* extract_abstract_alternative(title): the strings it can return.  Each API
\* answers with an abstract, with none (or a status other than 200), or raises.
AlternativeResults(query) ==
    UNION {CASE crossref = "error" -> {"Abstract extraction failed"}
             [] crossref = "found" -> {CrossrefAbstract(query)}
             [] crossref = "none"  ->
                  {CASE semantic = "error" -> "Abstract extraction failed"
                     [] semantic = "found" -> SemanticAbstract(query)
                     [] semantic = "none"  -> "Abstract not found through APIs"
                   : semantic \in {"error", "found", "none"}}
           : crossref \in {"error", "found", "none"}}

\* extract_title_from_url(url): what it can return, each with the calls it made
TitleResults(url) ==
    IF Contains(url, "arxiv.org")
    THEN {[ret   |-> IF r[1] # "Title not available" THEN r[1]
                     ELSE "ArXiv Paper ID: " \o LastSegment(url, "/"),
           calls |-> <<Call("extract_abstract_from_arxiv", url, <<>>, "title")>>]
          : r \in ArxivResults(url)}
    ELSE IF Contains(url, "doi.org")
    THEN {[ret   |-> IF t # "Abstract extraction failed" THEN t
                     ELSE "DOI Reference: " \o LastSegment(url, "/"),
           calls |-> <<Call("extract_abstract_alternative", url, <<>>, "title")>>]
          : t \in AlternativeResults(url)}
    ELSE {[ret |-> t, calls |-> <<>>]
          : t \in UNION {CASE h = "error"  -> {"Unknown Title"}
                           [] h = "status" -> {LastSegment(url, "/")}
                           [] h = "ok"     -> {PageTitle(url), LastSegment(url, "/")}
                         : h \in HttpOutcomes(url)}}

\* extract_title_from_url as a logged call: its own entry, then the calls it made
TitleCalls(url, via) ==
    {[ret |-> t.ret,
      calls |-> <<Call("extract_title_from_url", url, <<>>, via)>> \o t.calls]
     : t \in TitleResults(url)}

(***************************************************************************)
(* self.metadata: a dict, which keeps the order its keys were inserted in, *)
(* as a sequence of <<key, value>> pairs.                                  *)
(***************************************************************************)
Keys(md) == {md[i][1] : i \in 1..Len(md)}

Get(md, k) == md[CHOOSE i \in 1..Len(md) : md[i][1] = k][2]

\* md[k] = v
Put(md, k, v) ==
    IF k \in Keys(md)
    THEN [i \in 1..Len(md) |-> IF md[i][1] = k THEN <<k, v>> ELSE md[i]]
    ELSE Append(md, <<k, v>>)

(***************************************************************************)
(* One iteration of the loop of process_links_and_dois.  The locals title *)
(* and abstract belong to the function, not to the iteration: st.bound     *)
(* holds the names assigned so far, and reading a name outside it raises   *)
(* UnboundLocalError, which the except clause of the iteration catches.    *)
(***************************************************************************)
ArxivUrl(source) == "https://arxiv.org/abs/" \o LastSegment(source, ":")

\* title, abstract = self.extract_abstract_from_arxiv(url)
AssignArxiv(st, url) ==
    {[st EXCEPT !.bound = @ \cup {"title", "abstract"}, !.title = r[1], !.abstract = r[2],
                !.calls = @ \o <<Call("extract_abstract_from_arxiv", url, <<r[2]>>, "chain")>>]
     : r \in ArxivResults(url)}

\* abstract = self.extract_abstract_from_url(source)
AssignUrlAbstract(st, source) ==
    {[st EXCEPT !.bound = @ \cup {"abstract"}, !.abstract = a,
                !.calls = @ \o <<Call("extract_abstract_from_url", source, <<a>>, "chain")>>]
     : a \in UrlAbstractResults(source)}

\* title = self.extract_title_from_url(source)
AssignTitle(st, source) ==
    {[st EXCEPT !.bound = @ \cup {"title"}, !.title = t.ret, !.calls = @ \o t.calls]
     : t \in TitleCalls(source, "chain")}

\* abstract = self.extract_abstract_alternative(title)
AssignAlternative(st) ==
    {[st EXCEPT !.bound = @ \cup {"abstract"}, !.abstract = a,
                !.calls = @ \o <<Call("extract_abstract_alternative", st.title, <<a>>, "chain")>>]
     : a \in AlternativeResults(st.title)}

\* abstract = self.extract_abstract_from_text(text)
AssignFromText(st, txt) ==
    LET a == ExtractAbstractFromText(txt)
    IN  {[st EXCEPT !.bound = @ \cup {"abstract"}, !.abstract = a,
                    !.calls = @ \o <<Call("extract_abstract_from_text", "text", <<a>>, "chain")>>]}

\* source.startswith(('http', 'doi.org', 'www.'))
IsWebReference(source) ==
    StartsWith(source, "http") \/ StartsWith(source, "doi.org") \/ StartsWith(source, "www.")

\* lines 214-225: the if / elif / elif on the shape of the reference, with no else
Dispatch(source, st) ==
    IF StartsWith(source, "arXiv:") THEN AssignArxiv(st, ArxivUrl(source))
    ELSE IF Contains(source, "arxiv.org") THEN AssignArxiv(st, source)
    ELSE IF IsWebReference(source)
    THEN UNION {AssignTitle(s1, source) : s1 \in AssignUrlAbstract(st, source)}
    ELSE {st}

\* the fallback runs whatever the dispatch stage returned
NotAbstractAlways(a) == TRUE

\* not abstract: the empty string is the only falsy string
NotAbstract(a) == a = ""

\* lines 227-229
Fallback(source, st) ==
    IF st.raised THEN {st}
    ELSE IF "abstract" \notin st.bound THEN {[st EXCEPT !.raised = TRUE]}
    ELSE IF NotAbstract(st.abstract)
    THEN UNION {AssignAlternative(s1) : s1 \in AssignTitle(st, source)}
    ELSE {st}

\* lines 231-232
Heuristic(txt, st) ==
    IF st.raised THEN {st}
    ELSE IF "abstract" \notin st.bound THEN {[st EXCEPT !.raised = TRUE]}
    ELSE IF NotAbstract(st.abstract) THEN AssignFromText(st, txt)
    ELSE {st}

\* lines 234-237: the dict display reads title and abstract
ReadLocals(st) ==
    IF st.raised \/ {"title", "abstract"} \subseteq st.bound THEN st
    ELSE [st EXCEPT !.raised = TRUE]

\* the body of the try of one iteration: every way it can end
IterationResults(source, txt, st) ==
    UNION {UNION {{ReadLocals(s3) : s3 \in Heuristic(txt, s2)}
                  : s2 \in Fallback(source, s1)}
           : s1 \in Dispatch(source, st)}

\* lines 241-244: the record of the except clause
FailureRecord == [abstract |-> "Failed to get Abstract", title |-> "Unknown Title"]

\* the except clause logs the failure and stores nothing
OnExceptionStoresNothing(md, source) == md

\* lines 239-244
OnException(md, source) == Put(md, source, FailureRecord)

\* lines 234-237
StoreRecord(md, source, st) == Put(md, source, [title |-> st.title, abstract |-> st.abstract])

\* the calls of one iteration (or one table row), tagged with whom they were made for
Tagged(cs, source, phase) ==
    [i \in 1..Len(cs) |-> [src |-> source, phase |-> phase, fn |-> cs[i].fn,
                           arg |-> cs[i].arg, ret |-> cs[i].ret, via |-> cs[i].via]]

(***************************************************************************)
(* The reports.                                                            *)
(***************************************************************************)
\* s[:n]
Prefix(s, n) == IF Len(s) > n THEN SubSeq(s, 1, n) ELSE s

\* lines 267-273: the entries of the PDF report
PdfEntries(md) ==
    [i \in 1..Len(md) |->
        [idx      |-> i,
         source   |-> IF Len(md[i][1]) > 100 THEN Prefix(md[i][1], 100) \o "..." ELSE md[i][1],
         abstract |-> Prefix(md[i][2].abstract, 500) \o "..."]]

\* line 334: the name shown in a row of the HTML table
RowNames(source) == TitleCalls(source, "html")

\* lines 333-344: a row of the HTML table
HtmlRow(i, source, info, name) ==
    [idx |-> i, name |-> name, abstract |-> Prefix(info.abstract, 500) \o "...", link |-> source]

\* lines 333-344: the tables the loop over the first n records can build, each
\* with the calls made while building it
RECURSIVE HtmlTables(_, _)
HtmlTables(md, n) ==
    IF n = 0 THEN {[rows |-> <<>>, calls |-> <<>>]}
    ELSE UNION {{[rows  |-> prev.rows \o <<HtmlRow(n, md[n][1], md[n][2], t.ret)>>,
                  calls |-> prev.calls \o Tagged(t.calls, md[n][1], "html")]
                 : t \in RowNames(md[n][1])}
                : prev \in HtmlTables(md, n - 1)}

(***************************************************************************)
(* The documents.                                                          *)
(***************************************************************************)
\* the references a document of the pipeline can cite, in the order it cites them
Tokens == <<"www.a", "www.arxiv.org/a", "http://b", "http://doi.org",
            "10.1000/x", "arXiv:2301.01234">>

\* the text citing the tokens numbered in I from the i-th on, one space apart
RECURSIVE Citing(_, _)
Citing(I, i) ==
    IF i > Len(Tokens) THEN ""
    ELSE IF i \notin I THEN Citing(I, i + 1)
    ELSE IF Citing(I, i + 1) = "" THEN Tokens[i]
    ELSE Tokens[i] \o " " \o Citing(I, i + 1)

\* the documents citing at most MaxTokens of the tokens
Docs == {Citing(I, 1) : I \in {J \in SUBSET (1..Len(Tokens)) : Cardinality(J) <= MaxTokens}}

\* the pieces a text handed to the extraction alone is made of
Pieces == {" ", ".", ",", "www.a", "10.1000/x", "arXiv:2301.01234", "http://b"}

\* the texts of at most n pieces
RECURSIVE PieceTexts(_)
PieceTexts(n) ==
    IF n = 0 THEN {""}
    ELSE PieceTexts(n - 1) \cup {t \o k : t \in PieceTexts(n - 1), k \in Pieces}

(***************************************************************************)
(* The state after PDFLinkExtractor(...) and the steps of workflow().      *)
(***************************************************************************)
NoOutput == [pdf_written |-> FALSE, pdf_entries |-> <<>>,
             html_written |-> FALSE, html_rows |-> <<>>, printed |-> <<>>]

InitObject ==
    /\ links = <<>> /\ dois = <<>> /\ arxiv_ids = <<>> /\ todo = <<>>
    /\ bound = {} /\ title = "" /\ abstract = ""
    /\ metadata = <<>> /\ calls = <<>> /\ out = NoOutput

Init ==
    /\ pc = "start"
    /\ pdf \in [readable : BOOLEAN, pages : Docs]
    /\ text = ""
    /\ InitObject

\* the text of the pages whether or not reading raises
ExtractedTextUnguarded(p) == p.pages

\* extract_text_from_pdf: the text of the pages, or "" when reading raises
ExtractedText(p) == IF p.readable THEN p.pages ELSE ""

ExtractTextFromPdf ==
    /\ pc = "start"
    /\ text' = ExtractedText(pdf)
    /\ pc' = "extract"
    /\ UNCHANGED <<pdf, links, dois, arxiv_ids, todo, bound, title, abstract, metadata, calls, out>>

ExtractLinksAndDois ==
    /\ pc = "extract"
    /\ links' \in ListsOf(LinkSet(text))
    /\ dois' \in ListsOf(DoiSet(text))
    /\ arxiv_ids' \in ListsOf(ArxivSet(text))
    /\ pc' = "process"
    /\ UNCHANGED <<pdf, text, todo, bound, title, abstract, metadata, calls, out>>

\* process_links_and_dois is entered: the list of the for loop, no local assigned
ProcessEnter ==
    /\ pc = "process"
    /\ todo' = links \o dois \o arxiv_ids
    /\ bound' = {} /\ title' = "" /\ abstract' = ""
    /\ pc' = "loop"
    /\ UNCHANGED <<pdf, text, links, dois, arxiv_ids, metadata, calls, out>>

\* one iteration of the for loop
ProcessSource ==
    /\ pc = "loop" /\ todo # <<>>
    /\ LET source == Head(todo)
           st0 == [bound |-> bound, title |-> title, abstract |-> abstract,
                   calls |-> <<>>, raised |-> FALSE]
       IN  \E st \in IterationResults(source, text, st0) :
              /\ metadata' = IF st.raised THEN OnException(metadata, source)
                             ELSE StoreRecord(metadata, source, st)
              /\ bound' = st.bound /\ title' = st.title /\ abstract' = st.abstract
              /\ calls' = calls \o Tagged(st.calls, source, "process")
    /\ todo' = Tail(todo)
    /\ UNCHANGED <<pc, pdf, text, links, dois, arxiv_ids, out>>

\* the for loop is over: process_links_and_dois returns
ProcessReturn ==
    /\ pc = "loop" /\ todo = <<>>
    /\ pc' = "pdf"
    /\ UNCHANGED <<pdf, text, links, dois, arxiv_ids, todo, bound, title, abstract, metadata, calls, out>>

\* not self.metadata
NothingToReport(md) == md = <<>>

CreateOutputPdf ==
    /\ pc = "pdf"
    /\ IF NothingToReport(metadata)
       THEN out' = [out EXCEPT !.printed = Append(@, "No links or abstracts found to generate PDF.")]
       ELSE \E written \in BOOLEAN :
              out' = IF written
                     THEN [out EXCEPT !.pdf_written = TRUE, !.pdf_entries = PdfEntries(metadata),
                                      !.printed = Append(@, "PDF successfully generated")]
                     ELSE [out EXCEPT !.printed = Append(@, "Error writing PDF")]
    /\ pc' = "html"
    /\ UNCHANGED <<pdf, text, links, dois, arxiv_ids, todo, bound, title, abstract, metadata, calls>>

CreateOutputHtml ==
    /\ pc = "html"
    /\ IF NothingToReport(metadata)
       THEN /\ out' = [out EXCEPT !.printed = Append(@, "No metadata found to generate HTML.")]
            /\ calls' = calls
       ELSE \E table \in HtmlTables(metadata, Len(metadata)), written \in BOOLEAN :
              /\ calls' = calls \o table.calls
              /\ out' = IF written
                        THEN [out EXCEPT !.html_written = TRUE, !.html_rows = table.rows,
                                         !.printed = Append(@, "HTML successfully generated")]
                        ELSE [out EXCEPT !.printed = Append(@, "Unexpected error")]
    /\ pc' = "finish"
    /\ UNCHANGED <<pdf, text, links, dois, arxiv_ids, todo, bound, title, abstract, metadata>>

\* line 422
WorkflowFinish ==
    /\ pc = "finish"
    /\ out' = [out EXCEPT !.printed = Append(@, "Extraction complete.")]
    /\ pc' = "done"
    /\ UNCHANGED <<pdf, text, links, dois, arxiv_ids, todo, bound, title, abstract, metadata, calls>>

Next ==
    \/ ExtractTextFromPdf
    \/ ExtractLinksAndDois
    \/ ProcessEnter
    \/ ProcessSource
    \/ ProcessReturn
    \/ CreateOutputPdf
    \/ CreateOutputHtml
    \/ WorkflowFinish

Spec == Init /\ [][Next]_vars

(***************************************************************************)
(* extract_links_and_dois alone, as a function of its text.                *)
(***************************************************************************)
InitExtract ==
    /\ pc = "extract"
    /\ text \in PieceTexts(MaxPieces)
    /\ pdf = [readable |-> TRUE, pages |-> text]
    /\ InitObject

NextExtract == ExtractLinksAndDois

SpecExtract == InitExtract /\ [][NextExtract]_vars

(***************************************************************************)
(* Vocabulary of the properties.                                           *)
(***************************************************************************)
\* the references handed to process_links_and_dois
References == Range(links) \cup Range(dois) \cup Range(arxiv_ids)

\* process_links_and_dois has returned
ProcessReturned == pc \in {"pdf", "html", "finish", "done"}

\* the references whose iteration is over
Iterated ==
    IF pc = "loop" THEN Range(SubSeq(links \o dois \o arxiv_ids, 1,
                                     Len(links) + Len(dois) + Len(arxiv_ids) - Len(todo)))
    ELSE IF ProcessReturned THEN References
    ELSE {}

\* the strings that stand for "no abstract"
AbstractPlaceholders ==
    {"", "Abstract not available", "Abstract not found", "Abstract extraction failed",
     "Abstract retrieval error", "Abstract not found through APIs",
     "No abstract found in text", "Failed to get Abstract"}

Usable(a) == a \notin AbstractPlaceholders

\* the title is content of a page or of an API answer
RealTitle(t) ==
    \/ StartsWith(t, "title of ")
    \/ StartsWith(t, "crossref abstract for ")
    \/ StartsWith(t, "semantic scholar abstract for ")

DispatchStages == {"extract_abstract_from_arxiv", "extract_abstract_from_url"}

AbstractStages == DispatchStages \cup {"extract_abstract_alternative", "extract_abstract_from_text"}

\* the positions in the log of the calls made while the reference was processed
LoopCalls(source) == {i \in 1..Len(calls) : calls[i].src = source /\ calls[i].phase = "process"}

\* the positions of the abstract stages process_links_and_dois ran for the reference
StageCalls(source) ==
    {i \in LoopCalls(source) : calls[i].via = "chain" /\ calls[i].fn \in AbstractStages}

\* the reference matches none of the branches of the dispatch
Shapeless(source) ==
    /\ ~StartsWith(source, "arXiv:")
    /\ ~Contains(source, "arxiv.org")
    /\ ~StartsWith(source, "http") /\ ~StartsWith(source, "doi.org") /\ ~StartsWith(source, "www.")

MinOf(S) == CHOOSE m \in S : \A k \in S : m <= k

\* s.rstrip(',.()[]')
TrimTrailing(s) == SubSeq(s, 1, Len(s) - TrailLen(s, StripChars))

\* no two entries of the list are equal
NoDuplicates(q) == \A i, j \in 1..Len(q) : i # j => q[i] # q[j]

\* no two entries of the list are equal once their trailing punctuation is trimmed
NoDuplicatesTrimmed(q) == \A i, j \in 1..Len(q) : i # j => TrimTrailing(q[i]) # TrimTrailing(q[j])

\* the record of the reference when the loop processes it first
RecordsWhenFirst(source) ==
    {IF st.raised THEN FailureRecord ELSE [title |-> st.title, abstract |-> st.abstract]
     : st \in IterationResults(source, text,
                               [bound |-> {}, title |-> "", abstract |-> "",
                                calls |-> <<>>, raised |-> FALSE])}

(***************************************************************************)
(* The properties.                                                         *)
(***************************************************************************)

\* C1: once the iteration of a reference is over, and so after
\* process_links_and_dois returns, self.metadata holds the reference as a key
\* whose record has exactly a 'title' and an 'abstract', both strings, whatever
\* the shape of the reference and whatever the lookups returned or raised: an
\* iteration that raises does not end the loop.
C1_EveryReferenceHasRecord ==
    \A s \in Iterated :
        /\ s \in Keys(metadata)
        /\ DOMAIN Get(metadata, s) = {"title", "abstract"}
        /\ Get(metadata, s).title \in STRING
        /\ Get(metadata, s).abstract \in STRING

\* C1 witness: the iteration of the first reference raised, the loop went on, a
\* later reference was resolved from its page, and the function returned.
C1_Witness ==
    /\ ProcessReturned
    /\ Len(metadata) >= 2
    /\ Shapeless(metadata[1][1]) /\ metadata[1][2] = FailureRecord
    /\ Usable(metadata[2][2].abstract)
    /\ Keys(metadata) = References

\* C2: a placeholder counts as no result: when the dispatch stage of a reference
\* returns the empty string or a "not found" sentinel, the bibliographic lookup
\* is attempted next, and the abstract recorded is the first usable result of the
\* chain.
C2_SentinelFallsThrough ==
    \A s \in Keys(metadata) :
        /\ \A i \in StageCalls(s) :
              (calls[i].fn \in DispatchStages /\ ~Usable(calls[i].ret[1]))
              => \E j \in StageCalls(s) : j > i /\ calls[j].fn = "extract_abstract_alternative"
        /\ LET usable == {i \in StageCalls(s) : Usable(calls[i].ret[1])}
           IN  usable # {} => Get(metadata, s).abstract = calls[MinOf(usable)].ret[1]

\* C3: a reference for which every stage fails (no abstract stage run for it
\* returned a usable abstract, and no title was found for it) ends with the record
\* {abstract: "Failed to get Abstract", title: "Unknown Title"}.
C3_AllFailedGivesFailureRecord ==
    \A s \in Keys(metadata) :
        ((\A i \in StageCalls(s) : ~Usable(calls[i].ret[1])) /\ ~RealTitle(Get(metadata, s).title))
        => Get(metadata, s) = FailureRecord

\* C4 as claimed: once a stage of the chain has returned a usable abstract for a
\* reference, none of the stage functions is called again while that reference is
\* processed; in particular extract_abstract_alternative is not.
C4_NoLaterStageCall ==
    \A s \in Keys(metadata) : \A i \in StageCalls(s) :
        Usable(calls[i].ret[1])
        => \A j \in LoopCalls(s) : j > i => calls[j].fn \notin AbstractStages

\* C4 as amended: once a stage of the chain has returned a usable abstract for a
\* reference, process_links_and_dois runs no later abstract stage for it and
\* records that abstract; a later call of a stage function for that reference is
\* made by extract_title_from_url, to find a title.
C4_NoLaterChainStage ==
    \A s \in Keys(metadata) : \A i \in StageCalls(s) :
        Usable(calls[i].ret[1])
        => /\ \A j \in StageCalls(s) : j <= i
           /\ \A j \in LoopCalls(s) :
                 (j > i /\ calls[j].fn \in AbstractStages) => calls[j].via = "title"
           /\ Get(metadata, s).abstract = calls[i].ret[1]

\* C4 witness: the webpage scrape of a doi.org reference returned a usable
\* abstract, which is recorded, and extract_title_from_url then called
\* extract_abstract_alternative for the same reference.
C4_Witness ==
    \E s \in Keys(metadata) : \E i \in StageCalls(s) : \E j \in LoopCalls(s) :
        /\ calls[i].fn = "extract_abstract_from_url" /\ Usable(calls[i].ret[1])
        /\ j > i /\ calls[j].fn = "extract_abstract_alternative" /\ calls[j].via = "title"
        /\ Get(metadata, s).abstract = calls[i].ret[1]

\* C5: for a reference that matches none of the dispatch branches, wherever it
\* sits in the processing order, a title is derived by extract_title_from_url
\* and the bibliographic APIs are then queried by extract_abstract_alternative.
C5_ShapelessReferenceIsLookedUp ==
    \A s \in Keys(metadata) :
        Shapeless(s)
        => \E i, j \in LoopCalls(s) :
              /\ i < j
              /\ calls[i].fn = "extract_title_from_url" /\ calls[i].via = "chain"
              /\ calls[j].fn = "extract_abstract_alternative" /\ calls[j].via = "chain"

\* C6: rendering resolves nothing and shows what is stored: no call is made while
\* the reports are written, and every row of the HTML table shows the title and
\* the (truncated) abstract of the record of its reference.
C6_RenderingShowsTheRecords ==
    /\ \A i \in 1..Len(calls) : calls[i].phase # "html"
    /\ \A i \in 1..Len(out.html_rows) :
          LET row == out.html_rows[i]
          IN  /\ row.link \in Keys(metadata)
              /\ row.name = Get(metadata, row.link).title
              /\ row.abstract = Prefix(Get(metadata, row.link).abstract, 500) \o "..."

\* C7 as claimed: in each of the three lists extract_links_and_dois returns, no
\* two entries are equal once their trailing punctuation is trimmed.
C7_UniqueAfterTrimming ==
    pc = "process"
    => /\ NoDuplicatesTrimmed(links)
       /\ NoDuplicatesTrimmed(dois)
       /\ NoDuplicatesTrimmed(arxiv_ids)

\* C7 as amended: no two entries of the links list, and no two of the arXiv-ID
\* list, are equal once their trailing punctuation is trimmed; the DOI list holds
\* no string twice, but its entries are not trimmed, so a DOI seen once without
\* and once with a trailing '.' is two entries.
C7_LinksUniqueAfterTrimming ==
    pc = "process"
    => /\ NoDuplicatesTrimmed(links)
       /\ NoDuplicatesTrimmed(arxiv_ids)
       /\ NoDuplicates(dois)

\* C7 witness: the text holds the same link twice, once with trailing
\* punctuation, and the links list holds it once.
C7_Witness ==
    /\ pc = "process"
    /\ \E i, j \in 1..Len(LinkMatches(text)) :
          /\ LinkMatches(text)[i] # LinkMatches(text)[j]
          /\ TrimTrailing(LinkMatches(text)[i]) = TrimTrailing(LinkMatches(text)[j])
    /\ Len(links) = 1

\* C8: when the PDF cannot be read, the workflow goes on with the empty text: it
\* finds no reference, makes no lookup, leaves self.metadata empty, writes neither
\* report, never stops before its end, and ends having printed the two "nothing
\* found" messages.
C8_UnreadablePdfEndsQuietly ==
    (~pdf.readable /\ pc # "start")
    => /\ text = ""
       /\ References = {} /\ todo = <<>>
       /\ calls = <<>>
       /\ metadata = <<>>
       /\ ~out.pdf_written /\ ~out.html_written
       /\ pc # "done" => ENABLED Next
       /\ pc = "done" => out.printed = <<"No links or abstracts found to generate PDF.",
                                         "No metadata found to generate HTML.",
                                         "Extraction complete.">>

\* C8 witness: the workflow has ended for a PDF that cites references and could
\* not be read.
C8_Witness == pc = "done" /\ ~pdf.readable /\ pdf.pages # ""

\* C9: when neither the dispatch stage nor the bibliographic lookup gave a usable
\* abstract for a reference, extract_abstract_from_text is called on the text of
\* the document and what it returns is recorded as the abstract of the reference.
C9_HeuristicIsLastStage ==
    \A s \in Keys(metadata) :
        (/\ \E i \in StageCalls(s) : calls[i].fn \in DispatchStages
         /\ \E i \in StageCalls(s) :
               /\ calls[i].fn = "extract_abstract_alternative"
               /\ calls[i].ret[1] \in {"Abstract not found through APIs", "Abstract extraction failed"}
         /\ \A i \in StageCalls(s) :
               calls[i].fn # "extract_abstract_from_text" => ~Usable(calls[i].ret[1]))
        => /\ \E i \in StageCalls(s) : calls[i].fn = "extract_abstract_from_text"
           /\ Get(metadata, s).abstract = ExtractAbstractFromText(text)

\* C10: the record of a reference is one the loop can give it when it processes
\* that reference first: nothing of a reference processed before it is in it.
C10_NoCarryOver ==
    \A s \in Keys(metadata) : Get(metadata, s) \in RecordsWhenFirst(s)

====
